---- MODULE Spec2Model ----
(***************************************************************************)
(* Model of script.py: the WEO / EMB-holdings dashboard generator.         *)
(*                                                                         *)
(* The script is one top-to-bottom pipeline: download a WEO release,       *)
(* fetch the EMB holdings, load the WEO table, collect three views per     *)
(* indicator, assemble the combined table, project every country, build    *)
(* the JSON and write index.html.  `Spec` is that pipeline.  `SpecFn`      *)
(* applies the two series algorithms of the collection loop                *)
(* (get_year_data with its caller's check, and the 10-year median) to      *)
(* series drawn from bounded sets.                                         *)
(*                                                                         *)
(* Numbers are integers in hundredths (1234 is 12.34).  A missing value    *)
(* (pandas NaN) and a number are records of one shape, so that any two     *)
(* values can be compared.  A pandas Series of one value per country is a  *)
(* function from country codes to values: sort_values() permutes the       *)
(* entries of a Series and never changes which value a label carries, so   *)
(* it leaves that function as it is.                                       *)
(***************************************************************************)
EXTENDS Integers, Sequences, FiniteSets, TLC

\* ------------------------------------------------------------ bounds
MaxHoldings == 2    \* distinct names in the holdings Location column
MaxIdx == 3         \* rows of a series given to get_year_data (SpecFn)
MaxObs == 3         \* rows of a series given to the median (SpecFn)
MaxOrder == 3       \* entries of a drawn sort_order (SpecFn)

\* ------------------------------------------------------------ values
NaN == [nan |-> TRUE, v |-> 0]
Num(x) == [nan |-> FALSE, v |-> x]
notna(x) == ~x.nan

EmptyView == [c \in {} |-> NaN]
NoneV == [none |-> TRUE, s |-> EmptyView]
SomeV(s) == [none |-> FALSE, s |-> s]

Range(f) == {f[i] : i \in DOMAIN f}

RECURSIVE SetToSeqs(_)
SetToSeqs(S) ==
    IF S = {} THEN {<<>>}
    ELSE UNION {{<<x>> \o t : t \in SetToSeqs(S \ {x})} : x \in S}

\* ------------------------------------------------------------ index entries
\* An index label of a series: a pandas Period (it has .year), an integer,
\* or a string given by its characters.
PeriodIdx(y) == [kind |-> "period", year |-> y, chars |-> <<>>]
IntIdx(y) == [kind |-> "int", year |-> y, chars |-> <<>>]
StrIdx(cs) == [kind |-> "str", year |-> 0, chars |-> cs]

DigitChars == <<"0", "1", "2", "3", "4", "5", "6", "7", "8", "9">>
IsDigit(ch) == \E d \in 1..10 : DigitChars[d] = ch
DigitVal(ch) == (CHOOSE d \in 1..10 : DigitChars[d] = ch) - 1

\* str(n) for n >= 0
RECURSIVE ToDigits(_)
ToDigits(n) ==
    IF n < 10 THEN <<DigitChars[n + 1]>>
    ELSE Append(ToDigits(n \div 10), DigitChars[(n % 10) + 1])

\* int(s) for a string of decimal digits
RECURSIVE ParseDigits(_, _)
ParseDigits(cs, acc) ==
    IF cs = <<>> THEN acc
    ELSE ParseDigits(Tail(cs), acc * 10 + DigitVal(Head(cs)))

IntY(y) == [isint |-> TRUE, v |-> y]
NotIntY == [isint |-> FALSE, v |-> 0]

\* extract_year_from_index: .year of a Period, int(idx) otherwise, and str(idx)
\* (never an int) when int() raises.
\* Variant: no int() of string labels.
extract_year_mut_noparse(idx) ==
    IF idx.kind = "period" THEN IntY(idx.year)
    ELSE IF idx.kind = "int" THEN IntY(idx.year)
    ELSE NotIntY

extract_year_from_index(idx) ==
    IF idx.kind = "period" THEN IntY(idx.year)
    ELSE IF idx.kind = "int" THEN IntY(idx.year)
    ELSE IF idx.chars # <<>> /\ \A i \in 1..Len(idx.chars) : IsDigit(idx.chars[i])
         THEN IntY(ParseDigits(idx.chars, 0))
         ELSE NotIntY

\* ------------------------------------------------------------ series
\* A country-by-year table as w.getc(var)[embi_countries] returns it: the
\* index labels in row order, one row of per-country values per label, and
\* the dtype of the index ("period" for a PeriodIndex, "int64" for integer
\* labels, "object" otherwise) and the column labels.
MkSeries(dt, cols, idx, rows) == [dtype |-> dt, cols |-> cols, index |-> idx, rows |-> rows]

Abs(x) == IF x < 0 THEN 0 - x ELSE x

index_years(series) ==
    [i \in 1..Len(series.index) |-> extract_year_from_index(series.index[i])]

\* list.index(y): the first position holding y
FirstPos(iy, y) ==
    CHOOSE p \in 1..Len(iy) :
        /\ iy[p].isint /\ iy[p].v = y
        /\ \A q \in 1..(p - 1) : ~(iy[q].isint /\ iy[q].v = y)

\* Variant: the last element of least distance.
ClosestPos_mut_last(iy, target) ==
    CHOOSE p \in 1..Len(iy) :
        /\ iy[p].isint
        /\ \A q \in 1..Len(iy) :
              iy[q].isint =>
                  \/ Abs(iy[p].v - target) < Abs(iy[q].v - target)
                  \/ (Abs(iy[p].v - target) = Abs(iy[q].v - target) /\ p >= q)

\* min(numeric_years, key=|x - target|): the first element of least distance
ClosestPos(iy, target) ==
    CHOOSE p \in 1..Len(iy) :
        /\ iy[p].isint
        /\ \A q \in 1..Len(iy) :
              iy[q].isint =>
                  \/ Abs(iy[p].v - target) < Abs(iy[q].v - target)
                  \/ (Abs(iy[p].v - target) = Abs(iy[q].v - target) /\ p <= q)

Resolved(vals, yr) == [raised |-> FALSE, values |-> vals, sentinel |-> FALSE, used |-> yr]
\* Variant: the last-row fallback reports a number as the year used.
ResolvedLast_mut_numeric(vals) == Resolved(vals, 0)

ResolvedLast(vals) == [raised |-> FALSE, values |-> vals, sentinel |-> TRUE, used |-> 0]
ResolveRaised == [raised |-> TRUE, values |-> EmptyView, sentinel |-> FALSE, used |-> 0]

\* get_year_data: the exact year, else the closest integer year, else the
\* last row with the "last_available" sentinel.  iloc[-1] of a series with
\* no rows raises IndexError.
get_year_data(series, target_year) ==
    LET iy == index_years(series)
    IN  IF \E p \in 1..Len(iy) : iy[p].isint /\ iy[p].v = target_year
        THEN Resolved(series.rows[FirstPos(iy, target_year)], target_year)
        ELSE IF \E p \in 1..Len(iy) : iy[p].isint
        THEN LET pos == FirstPos(iy, iy[ClosestPos(iy, target_year)].v)
             IN  Resolved(series.rows[pos], iy[pos].v)
        ELSE IF Len(iy) = 0 THEN ResolveRaised
        ELSE ResolvedLast(series.rows[Len(iy)])

\* ------------------------------------------------------------ median
\* The values of seq s at the positions P, in ascending order.
RECURSIVE SortedAt(_, _)
SortedAt(s, P) ==
    IF P = {} THEN <<>>
    ELSE LET m == CHOOSE p \in P : \A q \in P : s[p] <= s[q]
         IN  <<s[m]>> \o SortedAt(s, P \ {m})

\* Series.median() of the numbers xs (sorted): the middle one, or the mean of
\* the two middle ones; NaN when there is none.  Observations are even
\* numbers of hundredths, so the mean of two is exact.
MedianOfSorted(xs) ==
    LET n == Len(xs)
    IN  IF n = 0 THEN NaN
        ELSE IF n % 2 = 1 THEN Num(xs[(n + 1) \div 2])
        ELSE Num((xs[n \div 2] + xs[(n \div 2) + 1]) \div 2)

\* The rows that .loc[Period(lo):Period(hi)] keeps of a PeriodIndex in
\* increasing order: label slicing is inclusive at both ends.
\* Variant: the lower bound excluded.
WindowRows_mut_open(series, lo, hi) ==
    {p \in 1..Len(series.index) :
        lo < series.index[p].year /\ series.index[p].year <= hi}

WindowRows(series, lo, hi) ==
    {p \in 1..Len(series.index) :
        lo <= series.index[p].year /\ series.index[p].year <= hi}

ColumnMedian(series, P, c) ==
    LET col == [p \in 1..Len(series.rows) |-> series.rows[p][c].v]
        obs == {p \in P : notna(series.rows[p][c])}
    IN  MedianOfSorted(SortedAt(col, obs))

MedianOk(vals) == [raised |-> FALSE, values |-> vals]
MedianRaised == [raised |-> TRUE, values |-> EmptyView]

\* Variant: countries without a median are dropped.
median_10yr_mut_dropna(series, current_year) ==
    IF series.dtype = "period"
    THEN LET P == WindowRows(series, current_year - 9, current_year)
         IN  MedianOk([c \in {k \in series.cols : notna(ColumnMedian(series, P, k))} |->
                          ColumnMedian(series, P, c)])
    ELSE MedianRaised

\* series_data.loc[pd.Period(Y-9):pd.Period(Y)].median().sort_values():
\* the slice bounds are Period objects, which only a PeriodIndex can place;
\* on integer or string labels the slice raises.
median_10yr(series, current_year) ==
    IF series.dtype = "period"
    THEN LET P == WindowRows(series, current_year - 9, current_year)
         IN  MedianOk([c \in series.cols |-> ColumnMedian(series, P, c)])
    ELSE MedianRaised

\* ------------------------------------------------------------ program constants
\* download_attempts: the (year, release) candidates in order of preference
download_attempts == <<<<2025, 2>>, <<2025, 1>>, <<2024, 2>>, <<2024, 1>>, <<2023, 2>>>>

\* country_mapping: holdings name -> ISO code
country_mapping ==
    [n \in {"Angola", "Argentina", "Bahrain", "Brazil", "Bulgaria", "Chile", "China",
            "Colombia", "Costa Rica", "Cote D'Ivoire (Ivory Coast)", "Dominican Republic",
            "Ecuador", "Egypt", "Ghana", "Guatemala", "Hungary", "Jamaica", "Jordan",
            "Kazakhstan", "Kenya", "Latvia", "Malaysia", "Mexico", "Morocco", "Nigeria",
            "Oman", "Pakistan", "Panama", "Peru", "Philippines", "Poland", "Romania",
            "Saudi Arabia", "Serbia", "South Africa", "Sri Lanka", "Turkey", "Ukraine",
            "United Arab Emirates", "Uruguay"} |->
        CASE n = "Angola" -> "AGO" [] n = "Argentina" -> "ARG" [] n = "Bahrain" -> "BHR"
          [] n = "Brazil" -> "BRA" [] n = "Bulgaria" -> "BGR" [] n = "Chile" -> "CHL"
          [] n = "China" -> "CHN" [] n = "Colombia" -> "COL" [] n = "Costa Rica" -> "CRI"
          [] n = "Cote D'Ivoire (Ivory Coast)" -> "CIV" [] n = "Dominican Republic" -> "DOM"
          [] n = "Ecuador" -> "ECU" [] n = "Egypt" -> "EGY" [] n = "Ghana" -> "GHA"
          [] n = "Guatemala" -> "GTM" [] n = "Hungary" -> "HUN" [] n = "Jamaica" -> "JAM"
          [] n = "Jordan" -> "JOR" [] n = "Kazakhstan" -> "KAZ" [] n = "Kenya" -> "KEN"
          [] n = "Latvia" -> "LVA" [] n = "Malaysia" -> "MYS" [] n = "Mexico" -> "MEX"
          [] n = "Morocco" -> "MAR" [] n = "Nigeria" -> "NGA" [] n = "Oman" -> "OMN"
          [] n = "Pakistan" -> "PAK" [] n = "Panama" -> "PAN" [] n = "Peru" -> "PER"
          [] n = "Philippines" -> "PHL" [] n = "Poland" -> "POL" [] n = "Romania" -> "ROU"
          [] n = "Saudi Arabia" -> "SAU" [] n = "Serbia" -> "SRB" [] n = "South Africa" -> "ZAF"
          [] n = "Sri Lanka" -> "LKA" [] n = "Turkey" -> "TUR" [] n = "Ukraine" -> "UKR"
          [] n = "United Arab Emirates" -> "ARE" [] n = "Uruguay" -> "URY"]

\* var_dict: WEO subject code -> display name, in insertion order
var_dict ==
    <<<<"NGDPD", "GDP (US Dollars)">>,
      <<"LP", "Population">>,
      <<"NGDP_RPCH", "Real GDP growth (%)">>,
      <<"NID_NGDP", "Total investment (% of GDP)">>,
      <<"NGSD_NGDP", "National savings (% of GDP)">>,
      <<"PCPIPCH", "Inflation, consumer prices (%)">>,
      <<"GGR_NGDP", "General government revenue (% of GDP)">>,
      <<"GGX_NGDP", "General government total expenditure (% of GDP)">>,
      <<"GGXCNL_NGDP", "General government net lending/borrowing (% of GDP)">>,
      <<"GGXONLB_NGDP", "General government net borrowing (% of GDP)">>,
      <<"GGXWDG_NGDP", "General government gross debt (% of GDP)">>,
      <<"BCA_NGDPD", "Current account balance (% of GDP)">>>>

var_keys == [i \in 1..Len(var_dict) |-> var_dict[i][1]]

\* rename(columns=var_dict)
DisplayName(var) == var_dict[CHOOSE i \in 1..Len(var_dict) : var_dict[i][1] = var][2]

logical_order ==
    <<"GDP (US Dollars)",
      "Population",
      "Real GDP growth (%)",
      "Inflation, consumer prices (%)",
      "National savings (% of GDP)",
      "Total investment (% of GDP)",
      "Current account balance (% of GDP)",
      "General government revenue (% of GDP)",
      "General government total expenditure (% of GDP)",
      "General government net lending/borrowing (% of GDP)",
      "General government net borrowing (% of GDP)",
      "General government gross debt (% of GDP)">>

\* The display names in the order sort_index(axis=1) and unstack() put them:
\* ascending by code point.
SortedNames ==
    <<"Current account balance (% of GDP)",
      "GDP (US Dollars)",
      "General government gross debt (% of GDP)",
      "General government net borrowing (% of GDP)",
      "General government net lending/borrowing (% of GDP)",
      "General government revenue (% of GDP)",
      "General government total expenditure (% of GDP)",
      "Inflation, consumer prices (%)",
      "National savings (% of GDP)",
      "Population",
      "Real GDP growth (%)",
      "Total investment (% of GDP)">>

\* ------------------------------------------------------------ the run's inputs
\* datetime.now().year of the run
RunYears == {2025, 2026}

\* str(current_year)
YearStr(y) == CASE y = 2025 -> "2025" [] y = 2026 -> "2026" [] y = 2019 -> "2019"

\* First lines a download can leave in weo.csv, as token sequences: a WEO
\* header, and two error pages.
FirstLines == {<<"WEO Country Code", "ISO", "WEO Subject Code">>, <<"<html>">>, <<"<HEAD>", "<title>">>}
NoFile == <<>>

\* str.lower() on a token
LowerTok(t) ==
    CASE t = "<HEAD>" -> "<head>" [] t = "<HTML>" -> "<html>" [] t = "<title>" -> "<title>"
      [] t = "<html>" -> "<html>" [] t = "<head>" -> "<head>"
      [] OTHER -> t

\* Line 35: '<html>' in first_line.lower() or '<head>' in first_line.lower()
IsHtmlLine(line) ==
    \E i \in 1..Len(line) : LowerTok(line[i]) \in {"<html>", "<head>"}

\* Names the holdings Location column can carry; "" stands for a missing cell.
HoldingNames == {"Brazil", "Chile", "brazil", "Onlyinholdings"}
MissingCell == ""
RawLocations == UNION {[1..n -> HoldingNames \cup {MissingCell}] : n \in 0..MaxHoldings}

\* df['Location'].dropna().unique(): the names in order of first appearance
RECURSIVE DropnaUnique(_, _)
DropnaUnique(raw, seen) ==
    IF raw = <<>> THEN <<>>
    ELSE IF Head(raw) = MissingCell \/ Head(raw) \in seen
         THEN DropnaUnique(Tail(raw), seen)
         ELSE <<Head(raw)>> \o DropnaUnique(Tail(raw), seen \cup {Head(raw)})

\* Variant: country_mapping.get(country, country) without the filter, an
\* unmapped name passes through as it is.
RECURSIVE MapCountries_mut_keep(_)
MapCountries_mut_keep(names) ==
    IF names = <<>> THEN <<>>
    ELSE IF Head(names) \in DOMAIN country_mapping
         THEN <<country_mapping[Head(names)]>> \o MapCountries_mut_keep(Tail(names))
         ELSE <<Head(names)>> \o MapCountries_mut_keep(Tail(names))

\* Line 77: the codes of the names that are keys of country_mapping
RECURSIVE MapCountries(_)
MapCountries(names) ==
    IF names = <<>> THEN <<>>
    ELSE IF Head(names) \in DOMAIN country_mapping
         THEN <<country_mapping[Head(names)]>> \o MapCountries(Tail(names))
         ELSE MapCountries(Tail(names))

\* The WEO table that was loaded: the index representation getc returns
\* ("period" from the weo library, "int64" from CustomWEO), the subject
\* codes it holds and the ISO codes it has rows for.
WeoSubjects == {"NGDPD", "LP", "PCPIPCH"}
AllIso == Range(country_mapping)
WeoTables ==
    {[loaded |-> TRUE, repr |-> r, vars |-> vs, iso |-> AllIso \ miss] :
        r \in {"period", "int64"}, vs \in SUBSET WeoSubjects, miss \in {{}, {"CHL"}}}
NoWeo == [loaded |-> FALSE, repr |-> "period", vars |-> {}, iso |-> {}]

\* The year columns of the table and its cells: Brazil has every year; every
\* other country has numbers up to 2019 and nothing after, and for inflation
\* a number in 2015 only.
WeoYears == [p \in 1..11 |-> 2014 + p]
VarPos(var) == CHOOSE i \in 1..Len(var_keys) : var_keys[i] = var
Cell(var, c, y) ==
    IF c = "BRA" THEN Num(1000 + 12 * (y - 2015) + 2 * VarPos(var))
    ELSE IF var = "PCPIPCH" THEN (IF y = 2015 THEN Num(250) ELSE NaN)
    ELSE IF y <= 2019 THEN Num(400 + 26 * (y - 2015) + 2 * VarPos(var))
    ELSE NaN

VARIABLES pc, current_year, tried, weo_downloaded, weo_file, dl_msg,
          holdings_requested, countries, embi_countries, w, var_i, step,
          current_year_data, median_10yr_data, data_2019,
          dff, all_countries, proj_i, country_dfs, country_metrics_json, html, log

pipe_vars == <<pc, current_year, tried, weo_downloaded, weo_file, dl_msg,
               holdings_requested, countries, embi_countries, w, var_i, step,
               current_year_data, median_10yr_data, data_2019,
               dff, all_countries, proj_i, country_dfs, country_metrics_json, html, log>>

EmptyDict == [k \in {} |-> NoneV]
Put(d, k, x) == [j \in (DOMAIN d) \cup {k} |-> IF j = k THEN x ELSE d[j]]
NoDff == [index |-> {}, columns |-> {}, cell |-> [k \in {} |-> NaN]]
NoHtml == [written |-> FALSE, data |-> [k \in {} |-> NaN]]

\* The state before the first statement, the combined table aside.
PipeStart ==
    /\ pc = "download"
    /\ current_year \in RunYears
    /\ tried = <<>>
    /\ weo_downloaded = FALSE
    /\ weo_file = NoFile
    /\ dl_msg = "none"
    /\ holdings_requested = FALSE
    /\ countries = <<>>
    /\ embi_countries = <<>>
    /\ w = NoWeo
    /\ var_i = 0
    /\ step = "none"
    /\ current_year_data = EmptyDict
    /\ median_10yr_data = EmptyDict
    /\ data_2019 = EmptyDict
    /\ all_countries = <<>>
    /\ proj_i = 0
    /\ country_dfs = [k \in {} |-> NaN]
    /\ country_metrics_json = [k \in {} |-> NaN]
    /\ html = NoHtml
    /\ log = {}

PipeInit == PipeStart /\ dff = NoDff

\* ------------------------------------------------------------ download
\* The candidate the for loop of line 27 hands out after n attempts.
\* Variant: the loop skips a candidate.
NextCandidate_mut_skip(n) == download_attempts[IF n + 2 <= Len(download_attempts) THEN n + 2 ELSE n + 1]

NextCandidate(n) == download_attempts[n + 1]

\* Lines 27-44: one pass of the download loop.  The download raises, or
\* leaves a file whose first line is checked for the HTML markers.
DownloadAttempt ==
    /\ pc = "download"
    /\ Len(tried) < Len(download_attempts)
    /\ tried' = Append(tried, NextCandidate(Len(tried)))
    /\ \E raised \in BOOLEAN, line \in FirstLines :
          IF raised
          THEN /\ dl_msg' = "failed"
               /\ UNCHANGED <<weo_file, weo_downloaded>>
          ELSE /\ weo_file' = line
               /\ IF IsHtmlLine(line)
                  THEN dl_msg' = "html" /\ UNCHANGED weo_downloaded
                  ELSE dl_msg' = "ok" /\ weo_downloaded' = TRUE
    /\ pc' = IF weo_downloaded' \/ Len(tried') = Len(download_attempts)
             THEN "checkdl" ELSE "download"
    /\ UNCHANGED <<current_year, holdings_requested, countries, embi_countries, w, var_i,
                   step, current_year_data, median_10yr_data, data_2019, dff,
                   all_countries, proj_i, country_dfs, country_metrics_json, html, log>>

\* Lines 46-47: no release could be downloaded: RuntimeError, the run ends.
\* Variant: no raise when nothing was downloaded.
AfterDownload_mut_goon(downloaded) == "holdings"

AfterDownload(downloaded) == IF downloaded THEN "holdings" ELSE "fatal"

CheckDownloaded ==
    /\ pc = "checkdl"
    /\ pc' = AfterDownload(weo_downloaded)
    /\ log' = IF weo_downloaded THEN log ELSE log \cup {<<"RuntimeError", "download">>}
    /\ UNCHANGED <<current_year, tried, weo_downloaded, weo_file, dl_msg,
                   holdings_requested, countries, embi_countries, w, var_i, step,
                   current_year_data, median_10yr_data, data_2019, dff, all_countries,
                   proj_i, country_dfs, country_metrics_json, html>>

\* ------------------------------------------------------------ holdings, WEO table
\* Lines 53-77: one GET of the holdings file, the Location names, their codes.
FetchHoldings ==
    /\ pc = "holdings"
    /\ holdings_requested' = TRUE
    /\ \E raw \in RawLocations :
          /\ countries' = DropnaUnique(raw, {})
          /\ embi_countries' = MapCountries(countries')
    /\ pc' = "load"
    /\ UNCHANGED <<current_year, tried, weo_downloaded, weo_file, dl_msg, w, var_i, step,
                   current_year_data, median_10yr_data, data_2019, dff, all_countries,
                   proj_i, country_dfs, country_metrics_json, html, log>>

\* Lines 81-137: weo.WEO reads the file, or on KeyError CustomWEO wraps it.
LoadWEO ==
    /\ pc = "load"
    /\ w' \in WeoTables
    /\ pc' = "collect"
    /\ var_i' = 1
    /\ step' = "current"
    /\ UNCHANGED <<current_year, tried, weo_downloaded, weo_file, dl_msg,
                   holdings_requested, countries, embi_countries,
                   current_year_data, median_10yr_data, data_2019, dff, all_countries,
                   proj_i, country_dfs, country_metrics_json, html, log>>

\* ------------------------------------------------------------ collection loop
SeqSet(q) == {q[i] : i \in 1..Len(q)}

\* Line 198, w.getc(var)[embi_countries]: raises when the subject code is
\* not in the table (getc) or a requested country is no column (KeyError).
GetcRaises(var) ==
    \/ var \notin w.vars
    \/ \E i \in 1..Len(embi_countries) : embi_countries[i] \notin w.iso

series_data(var) ==
    MkSeries(w.repr, SeqSet(embi_countries),
             [p \in 1..Len(WeoYears) |->
                 IF w.repr = "period" THEN PeriodIdx(WeoYears[p]) ELSE IntIdx(WeoYears[p])],
             [p \in 1..Len(WeoYears) |->
                 [c \in SeqSet(embi_countries) |-> Cell(var, c, WeoYears[p])]])

\* What the run does after the body of the loop for var_i: the next
\* indicator, or the assembly once var_dict is exhausted.
PcAfterVar == IF var_i = Len(var_keys) THEN "assemble" ELSE "collect"

\* Lines 224-228: the handler of the loop body's try.
\* Variant: the handler leaves current_year_data as it is.
FailedCurrent_mut_keep(var) == current_year_data

FailedCurrent(var) == Put(current_year_data, var, NoneV)

VarFailed(var) ==
    /\ current_year_data' = FailedCurrent(var)
    /\ median_10yr_data' = Put(median_10yr_data, var, NoneV)
    /\ data_2019' = Put(data_2019, var, NoneV)
    /\ log' = log \cup {<<"Error collecting data", var>>}
    /\ var_i' = var_i + 1
    /\ step' = "current"
    /\ pc' = PcAfterVar

\* Lines 198-204: the series of the indicator and its latest-year view.
CollectCurrent ==
    /\ pc = "collect" /\ step = "current"
    /\ LET var == var_keys[var_i]
       IN  IF GetcRaises(var)
           THEN VarFailed(var)
           ELSE LET r == get_year_data(series_data(var), current_year)
                IN  IF r.raised
                    THEN VarFailed(var)
                    ELSE /\ current_year_data' = Put(current_year_data, var, SomeV(r.values))
                         /\ log' = IF r.sentinel \/ r.used # current_year
                                   THEN log \cup {<<"Current year not found", var>>}
                                   ELSE log
                         /\ step' = "median"
                         /\ UNCHANGED <<median_10yr_data, data_2019, var_i, pc>>
    /\ UNCHANGED <<current_year, tried, weo_downloaded, weo_file, dl_msg,
                   holdings_requested, countries, embi_countries, w, dff, all_countries,
                   proj_i, country_dfs, country_metrics_json, html>>

\* Lines 206-208: the 10-year median view.
CollectMedian ==
    /\ pc = "collect" /\ step = "median"
    /\ LET var == var_keys[var_i]
           m == median_10yr(series_data(var), current_year)
       IN  IF m.raised
           THEN VarFailed(var)
           ELSE /\ median_10yr_data' = Put(median_10yr_data, var, SomeV(m.values))
                /\ step' = "y2019"
                /\ UNCHANGED <<current_year_data, data_2019, var_i, pc, log>>
    /\ UNCHANGED <<current_year, tried, weo_downloaded, weo_file, dl_msg,
                   holdings_requested, countries, embi_countries, w, dff, all_countries,
                   proj_i, country_dfs, country_metrics_json, html>>

\* Lines 210-222: the 2019 view; its own handler stores a NaN for every
\* country of embi_countries.
Collect2019 ==
    /\ pc = "collect" /\ step = "y2019"
    /\ LET var == var_keys[var_i]
           r == get_year_data(series_data(var), 2019)
       IN  IF r.raised
           THEN /\ data_2019' = Put(data_2019, var,
                                    SomeV([c \in SeqSet(embi_countries) |-> NaN]))
                /\ log' = log \cup {<<"Error getting 2019 data", var>>}
           ELSE /\ data_2019' = Put(data_2019, var, SomeV(r.values))
                /\ log' = IF r.sentinel \/ r.used # 2019
                          THEN log \cup {<<"2019 not found", var>>}
                          ELSE log
    /\ var_i' = var_i + 1
    /\ step' = "current"
    /\ pc' = PcAfterVar
    /\ UNCHANGED <<current_year, tried, weo_downloaded, weo_file, dl_msg,
                   holdings_requested, countries, embi_countries, w,
                   current_year_data, median_10yr_data, dff, all_countries,
                   proj_i, country_dfs, country_metrics_json, html>>

\* ------------------------------------------------------------ combined table
\* Lines 232-234: the entries that are not None
Clean(d) == {k \in DOMAIN d : ~d[k].none}

\* Lines 236-274: the three frames, suffixed, concatenated and relabelled
\* (indicator, period).  The rows are the union of the views' labels; a cell
\* no view fills is NaN.
LatestLabel(year) == YearStr(year)

ViewCell(d, var, c) == IF c \in DOMAIN d[var].s THEN d[var].s[c] ELSE NaN

BuildDff ==
    LET cur == {<<DisplayName(k), LatestLabel(current_year)>> : k \in Clean(current_year_data)}
        med == {<<DisplayName(k), "10yr_Median">> : k \in Clean(median_10yr_data)}
        y19 == {<<DisplayName(k), "2019">> : k \in Clean(data_2019)}
        idx == UNION ({DOMAIN current_year_data[k].s : k \in Clean(current_year_data)}
                      \cup {DOMAIN median_10yr_data[k].s : k \in Clean(median_10yr_data)}
                      \cup {DOMAIN data_2019[k].s : k \in Clean(data_2019)})
        VarOf(name) == CHOOSE k \in SeqSet(var_keys) : DisplayName(k) = name
    IN  [index |-> idx,
         columns |-> cur \cup med \cup y19,
         cell |-> [rc \in idx \X (cur \cup med \cup y19) |->
                     IF rc[2] \in cur THEN ViewCell(current_year_data, VarOf(rc[2][1]), rc[1])
                     ELSE IF rc[2] \in med THEN ViewCell(median_10yr_data, VarOf(rc[2][1]), rc[1])
                     ELSE ViewCell(data_2019, VarOf(rc[2][1]), rc[1])]]

\* Lines 232-307: build dff and list its rows.  The order of dff.index
\* depends on the order of the views' values; every order is allowed here.
Assemble ==
    /\ pc = "assemble"
    /\ dff' = BuildDff
    /\ all_countries' \in SetToSeqs(dff'.index)
    /\ proj_i' = 1
    /\ pc' = IF all_countries' = <<>> THEN "serialize" ELSE "project"
    /\ UNCHANGED <<current_year, tried, weo_downloaded, weo_file, dl_msg,
                   holdings_requested, countries, embi_countries, w, var_i, step,
                   current_year_data, median_10yr_data, data_2019,
                   country_dfs, country_metrics_json, html, log>>

\* ------------------------------------------------------------ country records
\* DataFrame.round(1) on hundredths: to the nearest tenth, a half to the even
\* tenth.
Round1(x) ==
    IF x.nan THEN x
    ELSE LET r == x.v % 10
             base == x.v - r
         IN  IF r < 5 THEN Num(base)
             ELSE IF r > 5 THEN Num(base + 10)
             ELSE IF (base \div 10) % 2 = 0 THEN Num(base) ELSE Num(base + 10)

InSeq(x, q) == \E i \in 1..Len(q) : q[i] = x

\* Variant: the indicators that sort_order does not list are not appended.
FinalOrder_mut_norest(available, sort_order) ==
    LET Avail(ind) == InSeq(ind, available)
    IN  SelectSeq(sort_order, Avail)

\* Lines 282-287: the sort_order entries that are available, then the rest
FinalOrder(available, sort_order) ==
    LET Avail(ind) == InSeq(ind, available)
        NotListed(ind) == ~InSeq(ind, sort_order)
    IN  SelectSeq(sort_order, Avail) \o SelectSeq(available, NotListed)

CountryDfRaised == [raised |-> TRUE, rows |-> <<>>, val |-> [k \in {} |-> NaN]]

\* The period columns get_country_df selects (line 280)
SelectedPeriods == {"2025", "2019", "10yr_Median"}

\* get_country_df(country_code, sort_order=...): the country's row unstacked
\* to indicator x period, rounded, the three period columns selected
\* (KeyError when one is no column) and the rows reordered.
get_country_df(country_code, sort_order) ==
    LET inds == {col[1] : col \in dff.columns}
        periods == {col[2] : col \in dff.columns}
        InTable(ind) == ind \in inds
        available == SelectSeq(SortedNames, InTable)
    IN  IF ~(SelectedPeriods \subseteq periods)
        THEN CountryDfRaised
        ELSE [raised |-> FALSE,
              rows |-> FinalOrder(available, sort_order),
              val |-> [ind \in inds |->
                         [per \in SelectedPeriods |->
                             IF <<ind, per>> \in dff.columns
                             THEN Round1(dff.cell[<<country_code, <<ind, per>>>>])
                             ELSE NaN]]]

\* Line 312: the assignment happens only when get_country_df returned.
\* Variant: the entry is stored also when the projection raised.
StoredDfs_mut_always(c, r) == Put(country_dfs, c, r)

StoredDfs(c, r) == IF r.raised THEN country_dfs ELSE Put(country_dfs, c, r)

\* Lines 310-315: one pass of the country loop.
Project ==
    /\ pc = "project"
    /\ proj_i <= Len(all_countries)
    /\ LET c == all_countries[proj_i]
           r == get_country_df(c, logical_order)
       IN  /\ country_dfs' = StoredDfs(c, r)
           /\ log' = IF r.raised THEN log \cup {<<"Error with", c>>} ELSE log
    /\ proj_i' = proj_i + 1
    /\ pc' = IF proj_i' > Len(all_countries) THEN "serialize" ELSE "project"
    /\ UNCHANGED <<current_year, tried, weo_downloaded, weo_file, dl_msg,
                   holdings_requested, countries, embi_countries, w, var_i, step,
                   current_year_data, median_10yr_data, data_2019, dff, all_countries,
                   country_metrics_json, html>>

\* float(x) if pd.notna(x) else None
JsonNull == [null |-> TRUE, num |-> 0]
JsonValue(x) == IF notna(x) THEN [null |-> FALSE, num |-> x.v] ELSE JsonNull

\* Lines 320-330: the nested dict that is embedded in the page.
BuildJson ==
    [c \in DOMAIN country_dfs |->
        [ind \in SeqSet(country_dfs[c].rows) |->
            [key \in {"2025", "2019", "10yr_Median"} |->
                JsonValue(country_dfs[c].val[ind][key])]]]

Serialize ==
    /\ pc = "serialize"
    /\ country_metrics_json' = BuildJson
    /\ pc' = "write"
    /\ UNCHANGED <<current_year, tried, weo_downloaded, weo_file, dl_msg,
                   holdings_requested, countries, embi_countries, w, var_i, step,
                   current_year_data, median_10yr_data, data_2019, dff, all_countries,
                   proj_i, country_dfs, html, log>>

\* Lines 587-592: index.html with the JSON in place of the placeholder.
WriteHtml ==
    /\ pc = "write"
    /\ html' = [written |-> TRUE, data |-> country_metrics_json]
    /\ pc' = "done"
    /\ UNCHANGED <<current_year, tried, weo_downloaded, weo_file, dl_msg,
                   holdings_requested, countries, embi_countries, w, var_i, step,
                   current_year_data, median_10yr_data, data_2019, dff, all_countries,
                   proj_i, country_dfs, country_metrics_json, log>>

\* ------------------------------------------------------------ SpecFn
VARIABLES fn_op, fn_series, fn_target, fn_pc, fn_out, fn_reported, fn_median,
          fn_order, fn_df

fn_vars == <<fn_op, fn_series, fn_target, fn_pc, fn_out, fn_reported, fn_median,
             fn_order, fn_df>>

FnCols == {"BRA", "CHL"}

\* Index labels for get_year_data: three years in each of the three
\* representations, and two strings int() rejects.
ResolveYears == {2024, 2025, 2028}
ResolveEntries ==
    {PeriodIdx(y) : y \in ResolveYears} \cup {IntIdx(y) : y \in ResolveYears}
        \cup {StrIdx(ToDigits(y)) : y \in ResolveYears}
        \cup {StrIdx(<<"n", "/", "a">>), StrIdx(<<"2", "0", "2", "5", "Q", "1">>)}
ResolveTargets == {2019, 2025, 2026}

DtypeOf(idx) ==
    IF idx # <<>> /\ \A i \in 1..Len(idx) : idx[i].kind = "period" THEN "period"
    ELSE IF idx # <<>> /\ \A i \in 1..Len(idx) : idx[i].kind = "int" THEN "int64"
    ELSE "object"

\* Row p of a resolve input carries values that name the row.
PosRows(n) == [p \in 1..n |-> [c \in FnCols |-> IF c = "BRA" THEN Num(100 * p) ELSE Num(100 * p + 2)]]

ResolveSeriesOf(idx) == MkSeries(DtypeOf(idx), FnCols, idx, PosRows(Len(idx)))

\* The series of the end-to-end scenario: integer years 2015..2028.
SpanSeries == MkSeries("int64", FnCols, [p \in 1..14 |-> IntIdx(2014 + p)], PosRows(14))

MedianYears == {2015, 2016, 2019, 2025, 2026}
MedianTargets == {2025, 2026}

RECURSIVE IncSeqs(_, _)
IncSeqs(S, n) ==
    IF n = 0 THEN {<<>>}
    ELSE {<<>>} \cup UNION {{<<y>> \o t : t \in IncSeqs({z \in S : z > y}, n - 1)} : y \in S}

\* The series with the years ys under index dtype dt and the columns b, h.
MedianSeriesOf(dt, ys, b, h) ==
    MkSeries(dt, FnCols,
             [p \in 1..Len(ys) |-> IF dt = "period" THEN PeriodIdx(ys[p]) ELSE IntIdx(ys[p])],
             [p \in 1..Len(ys) |-> [c \in FnCols |-> IF c = "BRA" THEN b[p] ELSE h[p]]])

\* Inputs for get_country_df: a combined table of one country whose
\* indicators are some of FnIndicators, each with the three period columns
\* of a run of the given year, and a sort_order of distinct names.
FnIndicators ==
    {"Current account balance (% of GDP)", "GDP (US Dollars)",
     "Inflation, consumer prices (%)", "Population"}
FnOrderNames == FnIndicators \cup {"Real GDP growth (%)"}

TableOf(inds, year) ==
    LET cols == inds \X {LatestLabel(year), "2019", "10yr_Median"}
    IN  [index |-> {"BRA"},
         columns |-> cols,
         cell |-> [rc \in {"BRA"} \X cols |->
                     Num(1000 + 26 * Cardinality(inds)
                           + (IF rc[2][2] = "2019" THEN 5 ELSE 15))]]

RECURSIVE DistinctSeqs(_, _)
DistinctSeqs(S, n) ==
    IF n = 0 THEN {<<>>}
    ELSE {<<>>} \cup UNION {{<<y>> \o t : t \in DistinctSeqs(S \ {y}, n - 1)} : y \in S}

FnIdle ==
    /\ fn_op = "none"
    /\ fn_series = MkSeries("object", {}, <<>>, <<>>)
    /\ fn_target = 0
    /\ fn_pc = "idle"
    /\ fn_out = ResolveRaised
    /\ fn_reported = FALSE
    /\ fn_median = MedianRaised
    /\ fn_order = <<>>
    /\ fn_df = CountryDfRaised

FnInit ==
    /\ \/ /\ fn_op = "resolve"
          /\ \E n \in 0..MaxIdx : \E idx \in [1..n -> ResolveEntries] :
                fn_series = ResolveSeriesOf(idx)
          /\ fn_target \in ResolveTargets
          /\ fn_order = <<>> /\ dff = NoDff
       \/ /\ fn_op = "resolve" /\ fn_series = SpanSeries /\ fn_target = 2030
          /\ fn_order = <<>> /\ dff = NoDff
       \/ /\ fn_op = "median"
          /\ \E dt \in {"period", "int64"}, ys \in IncSeqs(MedianYears, MaxObs) :
                \E b \in [1..Len(ys) -> {NaN, Num(100), Num(300)}],
                   h \in [1..Len(ys) -> {NaN, Num(200)}] :
                    fn_series = MedianSeriesOf(dt, ys, b, h)
          /\ fn_target \in MedianTargets
          /\ fn_order = <<>> /\ dff = NoDff
       \/ /\ fn_op = "project"
          /\ fn_series = MkSeries("object", {}, <<>>, <<>>)
          /\ fn_target = 0
          /\ \E inds \in SUBSET FnIndicators, year \in RunYears :
                dff = TableOf(inds, year)
          /\ \/ fn_order \in DistinctSeqs(FnOrderNames, MaxOrder)
             \/ fn_order = logical_order
    /\ fn_pc = "input"
    /\ fn_out = ResolveRaised
    /\ fn_reported = FALSE
    /\ fn_median = MedianRaised
    /\ fn_df = CountryDfRaised

\* Lines 201-204: resolve the target year and report a substitution when the
\* year used is not the target.
FnResolve ==
    /\ fn_pc = "input" /\ fn_op = "resolve"
    /\ fn_out' = get_year_data(fn_series, fn_target)
    /\ fn_reported' = (~fn_out'.raised /\ (fn_out'.sentinel \/ fn_out'.used # fn_target))
    /\ fn_pc' = "done"
    /\ UNCHANGED <<fn_op, fn_series, fn_target, fn_median, fn_order, fn_df>>
    /\ UNCHANGED pipe_vars

\* Line 207: the 10-year median of the series.
FnMedian ==
    /\ fn_pc = "input" /\ fn_op = "median"
    /\ fn_median' = median_10yr(fn_series, fn_target)
    /\ fn_pc' = "done"
    /\ UNCHANGED <<fn_op, fn_series, fn_target, fn_out, fn_reported, fn_order, fn_df>>
    /\ UNCHANGED pipe_vars

\* Line 312: the projection of one country of the table under a sort order.
FnProject ==
    /\ fn_pc = "input" /\ fn_op = "project"
    /\ fn_df' = get_country_df("BRA", fn_order)
    /\ fn_pc' = "done"
    /\ UNCHANGED <<fn_op, fn_series, fn_target, fn_out, fn_reported, fn_median, fn_order>>
    /\ UNCHANGED pipe_vars

vars == <<pipe_vars, fn_vars>>

FnNext == FnResolve \/ FnMedian \/ FnProject

\* The series algorithms and the projection on drawn inputs; the pipeline
\* does not run.
FnSpecInit == FnInit /\ PipeStart /\ current_year = 2025

SpecFn == FnSpecInit /\ [][FnNext]_vars

Init == PipeInit /\ FnIdle

Next ==
    \/ (DownloadAttempt /\ UNCHANGED fn_vars)
    \/ (CheckDownloaded /\ UNCHANGED fn_vars)
    \/ (FetchHoldings /\ UNCHANGED fn_vars)
    \/ (LoadWEO /\ UNCHANGED fn_vars)
    \/ (CollectCurrent /\ UNCHANGED fn_vars)
    \/ (CollectMedian /\ UNCHANGED fn_vars)
    \/ (Collect2019 /\ UNCHANGED fn_vars)
    \/ (Assemble /\ UNCHANGED fn_vars)
    \/ (Project /\ UNCHANGED fn_vars)
    \/ (Serialize /\ UNCHANGED fn_vars)
    \/ (WriteHtml /\ UNCHANGED fn_vars)

\* The pipeline, run once from the top.
Spec == Init /\ [][Next]_vars

\* ------------------------------------------------------------ claims on SpecFn
\* Label lab denotes the calendar year y: a Period of that year, the integer
\* y, or the decimal string of y.
Denotes(lab, y) ==
    \/ lab.kind \in {"period", "int"} /\ lab.year = y
    \/ lab.kind = "str" /\ lab.chars = ToDigits(y)

CalendarYears == 2000..2040

DenotesSomeYear(lab) == lab.kind \in {"period", "int"} \/ \E y \in CalendarYears : Denotes(lab, y)

YearOf(lab) == CHOOSE y \in CalendarYears : Denotes(lab, y)

FnResolved == fn_pc = "done" /\ fn_op = "resolve"

\* C4: when the target year is in the series' index (Period, integer or
\* numeric string), get_year_data returns for every country the value stored
\* at that year's (first) row and reports the target year as the year used.
C4_ExactYear ==
    (FnResolved /\ \E p \in 1..Len(fn_series.index) : Denotes(fn_series.index[p], fn_target))
        => /\ ~fn_out.raised /\ ~fn_out.sentinel
           /\ fn_out.used = fn_target
           /\ \E p \in 1..Len(fn_series.index) :
                 /\ Denotes(fn_series.index[p], fn_target)
                 /\ \A q \in 1..(p - 1) : ~Denotes(fn_series.index[q], fn_target)
                 /\ \A c \in fn_series.cols : fn_out.values[c] = fn_series.rows[p][c]

\* C4 witness: the target year is found behind a numeric-string label that is
\* not the first row.
C4_Witness ==
    /\ FnResolved
    /\ Len(fn_series.index) >= 2
    /\ fn_series.index[1] = PeriodIdx(2024)
    /\ fn_series.index[2] = StrIdx(<<"2", "0", "2", "5">>)
    /\ fn_target = 2025
    /\ fn_out.used = 2025
    /\ fn_out.values["BRA"] = Num(200)

\* C5: when the target year is not in the index but some label is an integer
\* year, get_year_data returns the row of the year of least |year - target|,
\* the first such year in index order on a tie, and reports that year; the
\* caller prints the substitution.  The series 2015..2028 with target 2030
\* resolves to 2028.
C5_ClosestYear ==
    /\ (FnResolved
          /\ (\A p \in 1..Len(fn_series.index) : ~Denotes(fn_series.index[p], fn_target))
          /\ (\E p \in 1..Len(fn_series.index) : DenotesSomeYear(fn_series.index[p])))
        => /\ ~fn_out.raised /\ ~fn_out.sentinel
           /\ fn_reported
           /\ \E p \in 1..Len(fn_series.index) :
                 /\ DenotesSomeYear(fn_series.index[p])
                 /\ fn_out.used = YearOf(fn_series.index[p])
                 /\ \A c \in fn_series.cols : fn_out.values[c] = fn_series.rows[p][c]
                 /\ \A q \in 1..Len(fn_series.index) :
                       DenotesSomeYear(fn_series.index[q]) =>
                           \/ Abs(YearOf(fn_series.index[p]) - fn_target)
                                 < Abs(YearOf(fn_series.index[q]) - fn_target)
                           \/ /\ Abs(YearOf(fn_series.index[p]) - fn_target)
                                    = Abs(YearOf(fn_series.index[q]) - fn_target)
                              /\ p <= q
    /\ (FnResolved /\ fn_series = SpanSeries /\ fn_target = 2030)
        => (fn_out.used = 2028 /\ ~fn_out.sentinel /\ fn_reported)

\* C5 witness: 2028 and 2024 are equally far from 2026 and 2028 comes first.
C5_Witness ==
    /\ FnResolved
    /\ fn_target = 2026
    /\ Len(fn_series.index) = 3
    /\ fn_series.index[1] = StrIdx(<<"n", "/", "a">>)
    /\ fn_series.index[2] = IntIdx(2028)
    /\ fn_series.index[3] = IntIdx(2024)
    /\ fn_out.used = 2028
    /\ fn_out.values["CHL"] = Num(202)
    /\ fn_reported

FnMedianDone == fn_pc = "done" /\ fn_op = "median"

\* The in-window observations of country c: the rows whose label is a year of
\* [target - 9, target] and whose value is a number.
InWindowObs(c) ==
    {p \in 1..Len(fn_series.index) :
        /\ fn_target - 9 <= fn_series.index[p].year
        /\ fn_series.index[p].year <= fn_target
        /\ notna(fn_series.rows[p][c])}

\* x is the k-th smallest of the values of c at the rows P.
IsKth(x, k, c, P) ==
    /\ \E p \in P : fn_series.rows[p][c].v = x
    /\ Cardinality({p \in P : fn_series.rows[p][c].v < x}) < k
    /\ Cardinality({p \in P : fn_series.rows[p][c].v <= x}) >= k

IsWindowMedian(m, c) ==
    LET P == InWindowObs(c)
        n == Cardinality(P)
    IN  IF n = 0 THEN m = NaN
        ELSE /\ notna(m)
             /\ \E lo, hi \in {fn_series.rows[p][c].v : p \in P} :
                   /\ IsKth(lo, (n + 1) \div 2, c, P)
                   /\ IsKth(hi, (n \div 2) + 1, c, P)
                   /\ 2 * m.v = lo + hi

\* C6: the 10-year median of every country is the median of exactly its
\* observations of the window [target - 9, target], absent when it has none,
\* and computing it is never an error.
C6_WindowMedian ==
    FnMedianDone =>
        /\ ~fn_median.raised
        /\ \A c \in fn_series.cols : IsWindowMedian(fn_median.values[c], c)

\* The part of C6 that the code keeps: on a PeriodIndex the median is the
\* window's median and never an error.
C6_PeriodWindowMedian ==
    (FnMedianDone /\ fn_series.dtype = "period") =>
        /\ ~fn_median.raised
        /\ \A c \in fn_series.cols : IsWindowMedian(fn_median.values[c], c)

C6_PeriodWitness ==
    /\ FnMedianDone /\ fn_series.dtype = "period" /\ fn_target = 2025
    /\ Len(fn_series.index) = 3
    /\ fn_series.index[1].year = 2015 /\ fn_series.rows[1]["BRA"] = Num(300)
    /\ fn_series.index[2].year = 2016 /\ fn_series.rows[2]["BRA"] = Num(100)
    /\ fn_series.index[3].year = 2026 /\ fn_series.rows[3]["CHL"] = Num(200)
    /\ fn_series.rows[2]["CHL"] = NaN
    /\ fn_median.values["BRA"] = Num(100)
    /\ fn_median.values["CHL"] = NaN

\* The same observations under a PeriodIndex.
AsPeriodIndexed(series) ==
    [series EXCEPT !.dtype = "period",
                   !.index = [p \in 1..Len(series.index) |-> PeriodIdx(series.index[p].year)]]

\* C7: a series indexed by integer years and the same series indexed by
\* Periods get the same 10-year median, and neither makes the median fail.
C7_SameMedianAnyIndex ==
    FnMedianDone =>
        /\ ~fn_median.raised
        /\ fn_median = median_10yr(AsPeriodIndexed(fn_series), fn_target)

\* ------------------------------------------------------------ claims on Spec
\* A first line that carries an HTML marker in any letter case.
HasHtmlMarker(line) ==
    \E i \in 1..Len(line) : line[i] \in {"<html>", "<HTML>", "<head>", "<HEAD>"}

\* C1: the release candidates are tried strictly in the order of
\* download_attempts; an attempt is accepted exactly when the download did
\* not raise and the first line has no HTML marker; a failed attempt leaves
\* the loop on the next candidate, and once a candidate is accepted no other
\* is attempted.
C1_OrderedFirstValid ==
    /\ [](tried = SubSeq(download_attempts, 1, Len(tried)))
    /\ [][(tried' # tried) =>
             /\ ~weo_downloaded
             /\ Len(tried') = Len(tried) + 1
             /\ weo_downloaded' <=> (dl_msg' # "failed" /\ ~HasHtmlMarker(weo_file'))
             /\ (~weo_downloaded' /\ Len(tried') < Len(download_attempts)) => pc' = "download"]_vars
    /\ [][weo_downloaded => tried' = tried]_vars

\* C1 witness: the third candidate was accepted after two failures and the
\* run went on without another attempt.
C1_Witness ==
    /\ pc = "collect"
    /\ weo_downloaded
    /\ tried = <<<<2025, 2>>, <<2025, 1>>, <<2024, 2>>>>
    /\ ~HasHtmlMarker(weo_file)

\* C2: when every candidate failed the run ends in the fatal error: no
\* holdings request, no indicator processed, no index.html, and nothing
\* more happens.
C2_FatalWhenExhausted ==
    /\ (Len(tried) = Len(download_attempts) /\ ~weo_downloaded) =>
          /\ pc \in {"checkdl", "fatal"}
          /\ ~holdings_requested
          /\ var_i = 0 /\ DOMAIN current_year_data = {}
          /\ DOMAIN median_10yr_data = {} /\ DOMAIN data_2019 = {}
          /\ ~html.written
    /\ pc = "fatal" =>
          /\ Len(tried) = Len(download_attempts) /\ ~weo_downloaded
          /\ <<"RuntimeError", "download">> \in log
          /\ ~ENABLED Next

\* C2 witness: the fatal state after five failed candidates, the last one an
\* error page.
C2_Witness ==
    /\ pc = "fatal"
    /\ Len(tried) = 5
    /\ dl_msg = "html"
    /\ ~holdings_requested /\ ~html.written

\* C3: for the run year Y, every country of the combined table gets a record
\* in the embedded JSON, and every indicator record of it stores the latest
\* value under the key str(Y).
C3_LatestKeyIsRunYear ==
    pc = "done" =>
        \A c \in dff.index :
            /\ c \in DOMAIN html.data
            /\ \A ind \in DOMAIN html.data[c] :
                  YearStr(current_year) \in DOMAIN html.data[c][ind]

AfterLoop == pc \in {"assemble", "project", "serialize", "write", "done"}

PresentIn(d, var) == var \in DOMAIN d /\ ~d[var].none

\* C8: for every indicator present in the output the latest-year, 2019 and
\* 10-year-median views have the same country codes, those of
\* embi_countries, and a country whose source cell is missing carries NaN.
C8_SameCountryUniverse ==
    AfterLoop =>
        \A var \in SeqSet(var_keys) :
            (PresentIn(current_year_data, var) \/ PresentIn(median_10yr_data, var)
                \/ PresentIn(data_2019, var)) =>
                /\ PresentIn(current_year_data, var)
                /\ PresentIn(median_10yr_data, var)
                /\ PresentIn(data_2019, var)
                /\ DOMAIN current_year_data[var].s = SeqSet(embi_countries)
                /\ DOMAIN median_10yr_data[var].s = SeqSet(embi_countries)
                /\ DOMAIN data_2019[var].s = SeqSet(embi_countries)
                /\ \A c \in SeqSet(embi_countries) :
                      /\ Cell(var, c, 2025).nan => current_year_data[var].s[c] = NaN
                      /\ Cell(var, c, 2019).nan => data_2019[var].s[c] = NaN
                      /\ (\A y \in (current_year - 9)..current_year : Cell(var, c, y).nan)
                             => median_10yr_data[var].s[c] = NaN

\* C8 witness: inflation is in the output and Chile, which has no inflation
\* number in any of the three periods, is in all three views as NaN.
C8_Witness ==
    /\ pc = "done"
    /\ PresentIn(current_year_data, "PCPIPCH")
    /\ {"BRA", "CHL"} \subseteq DOMAIN current_year_data["PCPIPCH"].s
    /\ current_year_data["PCPIPCH"].s["CHL"] = NaN
    /\ median_10yr_data["PCPIPCH"].s["CHL"] = NaN
    /\ data_2019["PCPIPCH"].s["CHL"] = NaN
    /\ notna(median_10yr_data["PCPIPCH"].s["BRA"])

FailureLogged(var) == <<"Error collecting data", var>> \in log

\* C9: an indicator whose extraction or resolution failed is absent from all
\* three views at once after the loop and appears in no country's record,
\* and the loop still went through every indicator of var_dict; an
\* indicator that did not fail is in all three views.
C9_AllOrNothing ==
    /\ \A i \in 1..Len(var_keys) :
          (pc = "collect" /\ i < var_i) \/ AfterLoop =>
              LET var == var_keys[i]
              IN  /\ var \in DOMAIN current_year_data
                  /\ var \in DOMAIN median_10yr_data
                  /\ var \in DOMAIN data_2019
                  /\ current_year_data[var].none = FailureLogged(var)
                  /\ median_10yr_data[var].none = FailureLogged(var)
                  /\ data_2019[var].none = FailureLogged(var)
    /\ \A var \in SeqSet(var_keys) :
          FailureLogged(var) =>
              /\ \A col \in dff.columns : col[1] # DisplayName(var)
              /\ \A c \in DOMAIN country_dfs : ~InSeq(DisplayName(var), country_dfs[c].rows)
              /\ \A c \in DOMAIN html.data : DisplayName(var) \notin DOMAIN html.data[c]

\* C9 witness: on integer year labels population failed at the median, after
\* its latest-year view had been stored, and the run finished with
\* population in no view.
C9_Witness ==
    /\ pc = "done"
    /\ w.repr = "int64"
    /\ "LP" \in w.vars /\ ~GetcRaises("LP")
    /\ FailureLogged("LP")
    /\ current_year_data["LP"].none
    /\ DOMAIN current_year_data = SeqSet(var_keys)

ProjectionLogged(c) == <<"Error with", c>> \in log

\* C10: a country whose projection failed is logged and skipped: it has no
\* entry in country_dfs and no key in the JSON; the loop goes through every
\* country of the combined table, every country that did not fail is a key
\* of the JSON, and the page is written.
C10_SkipFailedCountry ==
    /\ \A i \in 1..Len(all_countries) :
          (pc = "project" /\ i < proj_i) \/ pc \in {"serialize", "write", "done"} =>
              (all_countries[i] \in DOMAIN country_dfs) = ~ProjectionLogged(all_countries[i])
    /\ pc \in {"serialize", "write", "done"} => SeqSet(all_countries) = dff.index
    /\ pc \in {"write", "done"} =>
          DOMAIN country_metrics_json = {c \in dff.index : ~ProjectionLogged(c)}
    /\ pc = "done" =>
          /\ html.written
          /\ DOMAIN html.data = {c \in dff.index : ~ProjectionLogged(c)}

\* C10 witness: both countries failed one after the other, neither is a key
\* of the JSON, and the page was written.
C10_Witness ==
    /\ pc = "done"
    /\ Len(all_countries) = 2
    /\ \A i \in 1..2 : ProjectionLogged(all_countries[i])
    /\ DOMAIN html.data = {}
    /\ html.written

\* ------------------------------------------------------------ claims on the country set
\* Label x is a country label somewhere in the run: in the resolved list, in
\* a view, in the combined table, in a projection or in the output.
AppearsAnywhere(x) ==
    \/ x \in SeqSet(embi_countries)
    \/ \E k \in Clean(current_year_data) : x \in DOMAIN current_year_data[k].s
    \/ \E k \in Clean(median_10yr_data) : x \in DOMAIN median_10yr_data[k].s
    \/ \E k \in Clean(data_2019) : x \in DOMAIN data_2019[k].s
    \/ x \in dff.index
    \/ x \in SeqSet(all_countries)
    \/ x \in DOMAIN country_dfs
    \/ x \in DOMAIN country_metrics_json
    \/ x \in DOMAIN html.data

\* C11: the resolved country list holds exactly the codes of the holdings
\* names that are keys of country_mapping, one entry per name (a name that
\* differs in case is no key); a holdings name that is no key appears nowhere
\* in the run, not in the list, in a view, in the table or in the output, and
\* every label that does appear is the code of a holdings name.  Holdings
\* {"Brazil", "Onlyinholdings"} resolve to the list <<"BRA">>.
C11_ExactMappedCodes ==
    LET names == SeqSet(countries)
        keys == names \cap DOMAIN country_mapping
        codes == {country_mapping[n] : n \in keys}
    IN  /\ holdings_requested =>
              /\ SeqSet(embi_countries) = codes
              /\ Len(embi_countries) = Cardinality(keys)
        /\ \A n \in HoldingNames \ DOMAIN country_mapping : ~AppearsAnywhere(n)
        /\ \A c \in AllIso \ codes : ~AppearsAnywhere(c)
        /\ names = {"Brazil", "Onlyinholdings"} => embi_countries = <<"BRA">>
        /\ names = {"Brazil", "brazil"} => embi_countries = <<"BRA">>

\* C11 witness: the run ended with the holdings Brazil and Onlyinholdings and
\* the page holds the one key BRA.
C11_Witness ==
    /\ pc = "done"
    /\ countries = <<"Brazil", "Onlyinholdings">>
    /\ embi_countries = <<"BRA">>
    /\ html.written
    /\ DOMAIN html.data = {"BRA"}

\* ------------------------------------------------------------ claims on the last-row fallback
\* No label of the series is a Period, an integer or a string of decimal
\* digits.
NoIntegerYear ==
    \A p \in 1..Len(fn_series.index) :
        /\ fn_series.index[p].kind = "str"
        /\ \/ fn_series.index[p].chars = <<>>
           \/ \E i \in 1..Len(fn_series.index[p].chars) :
                 fn_series.index[p].chars[i] \notin Range(DigitChars)

\* C12: when no label of a series with at least one row reduces to an integer
\* year, get_year_data returns the values of the last positional row and
\* reports the sentinel "last_available", not a number, as the year used, and
\* the caller prints the substitution; the sentinel is reported in no other
\* case.  (A series with no row has no last row: the call raises.)
C12_LastRowSentinel ==
    LET n == Len(fn_series.index)
    IN  /\ (FnResolved /\ NoIntegerYear /\ n > 0)
            => /\ ~fn_out.raised
               /\ fn_out.sentinel
               /\ fn_reported
               /\ \A c \in fn_series.cols : fn_out.values[c] = fn_series.rows[n][c]
        /\ (FnResolved /\ ~fn_out.raised /\ fn_out.sentinel) => (NoIntegerYear /\ n > 0)
        /\ (FnResolved /\ n = 0) => fn_out.raised

\* C12 witness: three rows labelled with strings that are no integers, the
\* last row returned under the sentinel.
C12_Witness ==
    /\ FnResolved
    /\ Len(fn_series.index) = 3
    /\ fn_series.index[1] = StrIdx(<<"2", "0", "2", "5", "Q", "1">>)
    /\ fn_series.index[3] = StrIdx(<<"n", "/", "a">>)
    /\ NoIntegerYear
    /\ fn_target = 2025
    /\ fn_out.sentinel
    /\ fn_out.values["BRA"] = Num(300)

\* ------------------------------------------------------------ claims on the row order
FnProjected == fn_pc = "done" /\ fn_op = "project" /\ ~fn_df.raised

PosIn(q, x) == CHOOSE i \in 1..Len(q) : q[i] = x

\* C13: when get_country_df returns, its rows are a permutation of the
\* indicators of the table (each exactly once, none that the table lacks):
\* the indicators that sort_order lists come first, in the order of
\* sort_order, and the indicators it does not list follow in the order the
\* unstacked table had them.
C13_ReorderIsPermutation ==
    FnProjected =>
        LET rows == fn_df.rows
            inds == {col[1] : col \in dff.columns}
            Listed(ind) == InSeq(ind, fn_order)
        IN  /\ SeqSet(rows) = inds
            /\ Len(rows) = Cardinality(inds)
            /\ \A i, j \in 1..Len(rows) :
                  i < j =>
                     /\ Listed(rows[j]) => Listed(rows[i])
                     /\ Listed(rows[i]) /\ Listed(rows[j])
                          => PosIn(fn_order, rows[i]) < PosIn(fn_order, rows[j])
                     /\ ~Listed(rows[i]) /\ ~Listed(rows[j])
                          => PosIn(SortedNames, rows[i]) < PosIn(SortedNames, rows[j])

\* C13 witness: four indicators, two of them listed in the reverse of their
\* table order together with a name the table lacks; the two come first as
\* listed and the other two follow as the table had them.
C13_Witness ==
    /\ FnProjected
    /\ fn_order = <<"Population", "Real GDP growth (%)", "GDP (US Dollars)">>
    /\ {col[1] : col \in dff.columns} = FnIndicators
    /\ fn_df.rows = <<"Population", "GDP (US Dollars)",
                      "Current account balance (% of GDP)",
                      "Inflation, consumer prices (%)">>
====
